---- MODULE Spec2Model ----
(***************************************************************************)
(* Instantiation and linking of a WebAssembly module                       *)
(* (src/src/webassembly/instance.rs): Instance::new, get_function_addr,    *)
(* Instance::start, Instance::get_function_pointer, grow_memory and        *)
(* current_memory.                                                         *)
(*                                                                         *)
(* Machine words are kept at their real width.  A 64-bit word is a tuple   *)
(* of four 16-bit limbs, least significant first; a 32-bit word is a tuple *)
(* of two limbs.  Addresses, global slots, addends and patched values are  *)
(* such words, so truncation and sign extension are computed, not assumed. *)
(***************************************************************************)
EXTENDS Integers, Sequences, FiniteSets, TLC

\* ------------------------------------------------------------------ bounds
MaxImports == 2
MaxLocals == 2
MaxGlobals == 3
MaxPages == 3

\* ------------------------------------------------------------- 64-bit words
LimbBase == 2^16
LimbMax == LimbBase - 1
LimbSign == LimbBase \div 2

Zero64 == <<0, 0, 0, 0>>
One64 == <<1, 0, 0, 0>>

\* wrapping addition modulo 2^64
Add64(a, b) ==
    LET s1 == a[1] + b[1]
        s2 == a[2] + b[2] + (s1 \div LimbBase)
        s3 == a[3] + b[3] + (s2 \div LimbBase)
        s4 == a[4] + b[4] + (s3 \div LimbBase)
    IN  <<s1 % LimbBase, s2 % LimbBase, s3 % LimbBase, s4 % LimbBase>>

Not64(a) == <<LimbMax - a[1], LimbMax - a[2], LimbMax - a[3], LimbMax - a[4]>>

Neg64(a) == Add64(Not64(a), One64)

\* wrapping subtraction modulo 2^64
Sub64(a, b) == Add64(a, Neg64(b))

\* `x as i32` of a 64-bit integer: the low 32 bits
Trunc32(a) == <<a[1], a[2]>>

\* `n as i64` of an i32
SignExtend32(w) ==
    IF w[2] >= LimbSign THEN <<w[1], w[2], LimbMax, LimbMax>>
                        ELSE <<w[1], w[2], 0, 0>>

\* `n as i64` / `n as isize` of a u32
ZeroExtend32(w) == <<w[1], w[2], 0, 0>>

\* whether a 64-bit two's complement value lies in the signed 32-bit range
FitsI32(a) == SignExtend32(Trunc32(a)) = a

\* -------------------------------------------------------------- addresses
\* the sign of a 64-bit word read as i64 or isize
Negative64(a) == a[4] >= LimbSign
\* whether a + b and a - b leave the range of i64: what the overflow checks of
\* `+` and `-` test
AddOverflows(a, b) == Negative64(a) = Negative64(b) /\ Negative64(Add64(a, b)) # Negative64(a)
SubOverflows(a, b) == Negative64(a) # Negative64(b) /\ Negative64(Sub64(a, b)) # Negative64(a)

None == [tag |-> "None"]
Some(v) == [tag |-> "Some", value |-> v]

\* native entry points of the host binary
MockFnAddr == <<256, 21845, 0, 0>>
CurrentMemoryAddr == <<512, 21845, 0, 0>>
GrowMemoryAddr == <<768, 21845, 0, 0>>
SupportedLibCalls ==
    <<"CeilF32", "FloorF32", "TruncF32", "NearestF32",
      "CeilF64", "FloorF64", "TruncF64", "NearestF64", "Probestack">>
LibCallIndex(name) == CHOOSE i \in 1..Len(SupportedLibCalls) : SupportedLibCalls[i] = name
LibCallAddr(name) == <<1024 + 16 * LibCallIndex(name), 21845, 0, 0>>

\* host functions an embedder may register in the import object
ImpA == <<4096, 21846, 0, 0>>
ImpB == <<8192, 21846, 0, 0>>
\* an address in the upper half of the address space: negative as isize
ImpTop == <<0, 0, 0, LimbSign>>

\* heap addresses the allocator may give a code buffer (Vec<u8>::as_ptr):
\* neighbours are 2^31 apart, so a PC-relative delta can leave the i32 range
HeapAddr(s) == <<4096 * (s + 1), (s % 2) * LimbSign, 32512 + (s \div 2), 0>>

\* ------------------------------------------------------------ result values
Ok(v) == [tag |-> "Ok", value |-> v]
\* panic!(msg), or the panic of a failed unwrap, expect or bounds check
Panic(msg) == [tag |-> "Panic", msg |-> msg]
LinkError(key) == [tag |-> "LinkError", module |-> key[1], field |-> key[2]]

\* ------------------------------------------------- the combined index space
\* a variant that numbers the local functions before the imported ones
get_function_addr_locals_first(index, import_functions, functions) ==
    LET len == Len(functions)
    IN  IF index < len
        THEN [tag |-> "Ok", value |-> functions[index + 1].base]
        ELSE IF index - len < Len(import_functions)
             THEN [tag |-> "Ok", value |-> import_functions[index - len + 1]]
             ELSE [tag |-> "Panic", msg |-> "index out of bounds"]

\* get_function_addr: func_index is 0-based; Vec indexing is bounds-checked
get_function_addr(index, import_functions, functions) ==
    LET len == Len(import_functions)
    IN  IF index < len
        THEN Ok(import_functions[index + 1])
        ELSE IF index - len < Len(functions)
             THEN Ok(functions[index - len + 1].base)
             ELSE Panic("index out of bounds")

\* ------------------------------------------------------------ import object
\* ImportObject::get: Some(value) for a registered (module, field), else None
ImportGet(import_object, key) ==
    IF key \in DOMAIN import_object THEN Some(import_object[key]) ELSE None

FuncValue(a) == [tag |-> "Func", addr |-> a]
GlobalValue(v) == [tag |-> "Global", value |-> v]
TableValue == [tag |-> "Table"]
MemoryValue == [tag |-> "Memory"]

\* the stub that stands for a missing imported function; its return value
mock_fn == [addr |-> MockFnAddr, returns |-> <<0, 0>>]

\* a variant that mocks every missing import, whatever mock_missing_imports
ResolveImportedFunc_always_mocks(key, import_object, options) ==
    LET imported == ImportGet(import_object, key)
    IN  IF imported.tag = "Some" /\ imported.value.tag = "Func"
        THEN [tag |-> "Ok", value |-> imported.value.addr]
        ELSE IF imported.tag = "None"
        THEN [tag |-> "Ok", value |-> mock_fn.addr]
        ELSE [tag |-> "Panic", msg |-> "Expected function import"]

\* a variant that treats an import of the wrong kind like a missing one
ResolveImportedFunc_masks_mismatch(key, import_object, options) ==
    LET imported == ImportGet(import_object, key)
    IN  IF imported.tag = "Some" /\ imported.value.tag = "Func"
        THEN [tag |-> "Ok", value |-> imported.value.addr]
        ELSE IF options.mock_missing_imports
             THEN [tag |-> "Ok", value |-> mock_fn.addr]
             ELSE [tag |-> "LinkError", module |-> key[1], field |-> key[2]]

\* one iteration of the imported-function loop of Instance::new
ResolveImportedFunc(key, import_object, options) ==
    LET imported == ImportGet(import_object, key)
    IN  IF imported.tag = "Some" /\ imported.value.tag = "Func"
        THEN Ok(imported.value.addr)
        ELSE IF imported.tag = "None"
        THEN IF options.mock_missing_imports
             THEN Ok(mock_fn.addr)
             ELSE LinkError(key)
        ELSE Panic("Expected function import")

\* ---------------------------------------------------------- parallel compile
\* a variant that gathers the results in the order the tasks completed
ParCollect_completion_order(compiled, finished) ==
    [k \in 1..Len(compiled) |-> compiled[finished[k]].value]

\* values.par_iter().map(..).collect() into a Vec: an indexed parallel
\* iterator, so the result of the task for body k is element k whatever the
\* order `finished` the tasks completed in
ParCollect(compiled, finished) ==
    [k \in 1..Len(compiled) |-> compiled[k].value]

\* --------------------------------------------------------------- relocation
\* the address a relocation target resolves to
ResolveTarget(target, import_functions, functions) ==
    CASE target.tag = "Normal" ->
            get_function_addr(target.index, import_functions, functions)
      [] target.tag = "CurrentMemory" -> Ok(CurrentMemoryAddr)
      [] target.tag = "GrowMemory" -> Ok(GrowMemoryAddr)
      [] target.tag = "LibCall" ->
            IF \E i \in 1..Len(SupportedLibCalls) : SupportedLibCalls[i] = target.libcall
            THEN Ok(LibCallAddr(target.libcall))
            ELSE Panic("Unexpected libcall")
      [] target.tag = "Intrinsic" -> Panic("Unexpected intrinsic")

\* the write one relocation record makes, given the base of its function's
\* buffer and the resolved target address. The `+` and `-` on i64 and isize
\* wrap, except in a build with overflow checks (the debug build), where a
\* result outside the signed 64-bit range panics.
PatchFor(func_addr, reloc, target_func_address, debug_build) ==
    LET reloc_address == Add64(func_addr, ZeroExtend32(reloc.offset))
        difference == Sub64(target_func_address, reloc_address)
    IN  CASE reloc.reloc = "Abs8" ->
                IF debug_build /\ AddOverflows(target_func_address, reloc.addend)
                THEN Panic("attempt to add with overflow")
                ELSE Ok([address |-> reloc_address, width |-> 8,
                         value |-> Add64(target_func_address, reloc.addend)])
          [] reloc.reloc = "X86PCRel4" ->
                IF debug_build /\ SubOverflows(target_func_address, reloc_address)
                THEN Panic("attempt to subtract with overflow")
                ELSE IF debug_build /\ AddOverflows(difference, reloc.addend)
                THEN Panic("attempt to add with overflow")
                ELSE Ok([address |-> reloc_address, width |-> 4,
                         value |-> Trunc32(Add64(difference, reloc.addend))])
          [] OTHER -> Panic("unsupported reloc kind")

\* the body of the relocation loop for record `reloc` of function i (0-based
\* combined index): target first, then the owning function's address, then kind
ApplyReloc(i, reloc, import_functions, functions, debug_build) ==
    LET target == ResolveTarget(reloc.target, import_functions, functions)
        func_addr == get_function_addr(i, import_functions, functions)
    IN  IF target.tag = "Panic"
        THEN target
        ELSE IF func_addr.tag = "Panic"
        THEN func_addr
        ELSE PatchFor(func_addr.value, reloc, target.value, debug_build)

\* a variant that visits the records of each function last to first
RECURSIVE FlatRelocs_records_reversed(_, _)
FlatRelocs_records_reversed(relocations, i) ==
    IF i > Len(relocations)
    THEN <<>>
    ELSE [j \in 1..Len(relocations[i]) |->
              [func |-> i - 1, idx |-> Len(relocations[i]) + 1 - j,
               reloc |-> relocations[i][Len(relocations[i]) + 1 - j]]]
         \o FlatRelocs_records_reversed(relocations, i + 1)

\* the relocation records in the order the nested loops visit them
RECURSIVE FlatRelocs(_, _)
FlatRelocs(relocations, i) ==
    IF i > Len(relocations)
    THEN <<>>
    ELSE [j \in 1..Len(relocations[i]) |-> [func |-> i - 1, idx |-> j, reloc |-> relocations[i][j]]]
         \o FlatRelocs(relocations, i + 1)

\* ------------------------------------------------------------------ globals
\* a variant that reads the slot after the referenced one
ReadGlobal_next_slot(globals_data, index) ==
    IF index + 1 < Len(globals_data)
    THEN [tag |-> "Ok", value |-> globals_data[index + 2]]
    ELSE [tag |-> "Panic", msg |-> "index out of bounds"]

\* a variant without the bounds check: an index past the end reads whatever
\* lies behind the slice
ReadGlobal_unchecked(globals_data, index) ==
    IF index < Len(globals_data)
    THEN [tag |-> "Ok", value |-> globals_data[index + 1]]
    ELSE [tag |-> "Ok", value |-> <<LimbMax, LimbMax, LimbMax, LimbMax>>]

\* globals_data[global_index.index()]: slice indexing is bounds-checked
ReadGlobal(globals_data, index) ==
    IF index < Len(globals_data)
    THEN Ok(globals_data[index + 1])
    ELSE Panic("index out of bounds")

\* a variant that mocks a missing global when mock_missing_imports is set
ImportedGlobal_mock_imports_flag(global, import_object, options) ==
    IF global.import_name.tag = "None"
    THEN [tag |-> "Panic", msg |-> "Expected a import name for the global import"]
    ELSE LET imported == ImportGet(import_object, global.import_name.value)
         IN  IF imported.tag = "Some" /\ imported.value.tag = "Global"
             THEN [tag |-> "Ok", value |-> imported.value.value]
             ELSE IF imported.tag = "None" /\ options.mock_missing_imports
             THEN [tag |-> "Ok", value |-> Zero64]
             ELSE IF imported.tag = "None"
             THEN [tag |-> "Panic", msg |-> "Imported global value was not provided"]
             ELSE [tag |-> "Panic", msg |-> "Expected global import"]

\* GlobalInit::Import: the value registered under the global's import name
ImportedGlobal(global, import_object, options) ==
    IF global.import_name.tag = "None"
    THEN Panic("Expected a import name for the global import")
    ELSE LET imported == ImportGet(import_object, global.import_name.value)
         IN  IF imported.tag = "Some" /\ imported.value.tag = "Global"
             THEN Ok(imported.value.value)
             ELSE IF imported.tag = "None"
             THEN IF options.mock_missing_globals
                  THEN Ok(Zero64)
                  ELSE Panic("Imported global value was not provided")
             ELSE Panic("Expected global import")

\* the i64 a global's initializer yields, reading the zero-initialised slice
\* globals_data
EvalInitializer(global, globals_data, import_object, options) ==
    LET init == global.initializer
    IN  CASE init.tag = "I32Const" -> Ok(SignExtend32(init.value))
          [] init.tag = "I64Const" -> Ok(init.value)
          [] init.tag = "F32Const" -> Ok(ZeroExtend32(init.value))
          [] init.tag = "F64Const" -> Ok(init.value)
          [] init.tag = "GetGlobal" -> ReadGlobal(globals_data, init.index)
          [] init.tag = "Import" -> ImportedGlobal(global, import_object, options)

\* ----------------------------------------------------------- start function
ExportGet(exports, name) ==
    IF name \in DOMAIN exports THEN Some(exports[name]) ELSE None

FunctionExport(i) == [tag |-> "Function", index |-> i]
MemoryExport(i) == [tag |-> "Memory", index |-> i]
GlobalExport(i) == [tag |-> "Global", index |-> i]

\* a variant that prefers the export named main to the declared start function
StartFunc_main_first(module) ==
    LET main == ExportGet(module.exports, "main")
    IN  IF main.tag = "Some" /\ main.value.tag = "Function"
        THEN Some(main.value.index)
        ELSE module.start_func

\* module.info.start_func.or_else(|| exports.get("main") as a function)
StartFunc(module) ==
    IF module.start_func.tag = "Some"
    THEN module.start_func
    ELSE LET main == ExportGet(module.exports, "main")
         IN  IF main.tag = "Some" /\ main.value.tag = "Function"
             THEN Some(main.value.index)
             ELSE None

\* ----------------------------------------------------------- emscripten data
\* the address stored for one well-known export: 0 unless it is a function
ExportAddr(export, import_functions, functions) ==
    IF export.tag = "Some" /\ export.value.tag = "Function"
    THEN get_function_addr(export.value.index, import_functions, functions)
    ELSE Ok(Zero64)

\* the fields of EmscriptenData are extern "C" fn pointers, which have no null
\* value: Option<EmscriptenData> keeps its None in the null value of the first
\* field, so a Some(..) built with malloc transmuted from the null address is
\* the value None
EmscriptenData(module, options, import_functions, functions) ==
    IF options.abi = "Emscripten"
    THEN LET malloc_export == ExportGet(module.exports, "_malloc")
             free_export == ExportGet(module.exports, "_free")
             memalign_export == ExportGet(module.exports, "_memalign")
             memset_export == ExportGet(module.exports, "_memset")
             stack_alloc_export == ExportGet(module.exports, "stackAlloc")
             malloc_addr == ExportAddr(malloc_export, import_functions, functions)
             free_addr == ExportAddr(free_export, import_functions, functions)
             memalign_addr == ExportAddr(memalign_export, import_functions, functions)
             memset_addr == ExportAddr(memset_export, import_functions, functions)
             stack_alloc_addr == ExportAddr(stack_alloc_export, import_functions, functions)
         IN  IF /\ malloc_export.tag = "None"
                /\ free_export.tag = "None"
                /\ memalign_export.tag = "None"
                /\ memset_export.tag = "None"
             THEN Ok(None)
             ELSE IF \E a \in {malloc_addr, free_addr, memalign_addr,
                               memset_addr, stack_alloc_addr} : a.tag = "Panic"
                  THEN Panic("index out of bounds")
                  ELSE IF malloc_addr.value = Zero64
                  THEN Ok(None)
                  ELSE Ok(Some([malloc |-> malloc_addr.value,
                                free |-> free_addr.value,
                                memalign |-> memalign_addr.value,
                                memset |-> memset_addr.value,
                                stack_alloc |-> stack_alloc_addr.value]))
    ELSE Ok(None)

\* ------------------------------------------------------------- linear memory
\* LinearMemory::grow: the previous page count, or an error past the maximum
MemoryGrow(mem, add_pages) ==
    IF mem.pages + add_pages <= mem.maximum
    THEN [result |-> Ok(mem.pages), mem |-> [mem EXCEPT !.pages = mem.pages + add_pages]]
    ELSE [result |-> [tag |-> "Err"], mem |-> mem]

\* a variant that returns the page count after the growth
grow_memory_returns_new_size(size, memory_index, memories, debug_build) ==
    IF debug_build /\ memory_index # 0
    THEN [result |-> [tag |-> "Panic", msg |-> "non-default memory_index (0) not supported yet"],
          memories |-> memories]
    ELSE IF memory_index >= Len(memories)
    THEN [result |-> [tag |-> "Panic", msg |-> "no memory for index"], memories |-> memories]
    ELSE LET g == MemoryGrow(memories[memory_index + 1], size)
         IN  [result |-> [tag |-> "Ok",
                          value |-> IF g.result.tag = "Ok" THEN g.mem.pages ELSE -1],
              memories |-> [memories EXCEPT ![memory_index + 1] = g.mem]]

\* extern "C" fn grow_memory: the assertion is compiled in debug builds only;
\* memory_mut panics when the instance has no memory at that index
grow_memory(size, memory_index, memories, debug_build) ==
    IF debug_build /\ memory_index # 0
    THEN [result |-> Panic("non-default memory_index (0) not supported yet"),
          memories |-> memories]
    ELSE IF memory_index >= Len(memories)
    THEN [result |-> Panic("no memory for index"), memories |-> memories]
    ELSE LET g == MemoryGrow(memories[memory_index + 1], size)
         IN  [result |-> Ok(IF g.result.tag = "Ok" THEN g.result.value ELSE -1),
              memories |-> [memories EXCEPT ![memory_index + 1] = g.mem]]

\* extern "C" fn current_memory
current_memory(memory_index, memories) ==
    IF memory_index >= Len(memories)
    THEN Panic("index out of bounds")
    ELSE Ok(memories[memory_index + 1].pages)

\* get_instance_function!: the address of func_index as a callable
get_instance_function(func_index, import_functions, functions) ==
    get_function_addr(func_index, import_functions, functions)

\* ---------------------------------------------------------------------------
\* State
\* ---------------------------------------------------------------------------
VARIABLES
    module,            \* &Module: imported_funcs, function_bodies, globals, exports, start_func
    import_object,     \* ImportObject: (module, field) -> ImportValue
    options,           \* InstanceOptions
    heap,              \* heap[k]: where the allocator puts the code buffer of body k
    debug_build,       \* whether debug assertions and overflow checks are compiled in
    pc,                \* position in Instance::new, or its outcome
    err,               \* the Err(..) Instance::new returned, if any
    import_functions,  \* Vec<*const u8>
    compiled,          \* compiled_funcs, by index; None while the task is running
    finished,          \* the order in which the compile tasks completed
    functions,         \* Vec<Vec<u8>>: the code buffers
    relocations,       \* Vec<Vec<Relocation>>, one list per combined index
    applied,           \* number of relocation records processed so far
    patches,           \* the writes made by relocation, in order
    globals_data,      \* the i64 view of the globals vector
    gi,                \* number of globals evaluated so far
    instance,          \* Some([start_func, emscripten_data]) once built
    memories,          \* the instance's memories
    ret                \* what the last operation on the instance returned

inputs == <<module, import_object, options, heap, debug_build>>
vars == <<module, import_object, options, heap, debug_build, pc, err,
          import_functions, compiled, finished, functions, relocations, applied,
          patches, globals_data, gi, instance, memories, ret>>

NImports == Len(module.imported_funcs)
NLocals == Len(module.function_bodies)
NGlobals == Len(module.globals)

\* the local variables of Instance::new as it is entered
Entered ==
    /\ pc = "imports"
    /\ err = None
    /\ import_functions = <<>>
    /\ compiled = [k \in 1..NLocals |-> None]
    /\ finished = <<>>
    /\ functions = <<>>
    /\ relocations = <<>>
    /\ applied = 0
    /\ patches = <<>>
    /\ globals_data = <<>>
    /\ gi = 0
    /\ instance = None
    /\ memories = <<>>
    /\ ret = [op |-> "none"]

\* ---------------------------------------------------------------------------
\* Instance::new, one action per loop iteration or phase
\* ---------------------------------------------------------------------------
\* for (module, field) in module.info.imported_funcs.iter()
ResolveImport ==
    /\ pc = "imports"
    /\ Len(import_functions) < NImports
    /\ LET key == module.imported_funcs[Len(import_functions) + 1]
           r == ResolveImportedFunc(key, import_object, options)
       IN  CASE r.tag = "Ok" ->
                  /\ import_functions' = Append(import_functions, r.value)
                  /\ relocations' = Append(relocations, <<>>)
                  /\ UNCHANGED <<pc, err>>
             [] r.tag = "LinkError" ->
                  /\ pc' = "link_error"
                  /\ err' = r
                  /\ UNCHANGED <<import_functions, relocations>>
             [] r.tag = "Panic" ->
                  /\ pc' = "panic"
                  /\ err' = r
                  /\ UNCHANGED <<import_functions, relocations>>
    /\ UNCHANGED <<inputs, compiled, finished, functions, applied, patches,
                   globals_data, gi, instance, memories, ret>>

\* the import loop ends; the compile tasks are handed to the worker pool
ImportsDone ==
    /\ pc = "imports"
    /\ Len(import_functions) = NImports
    /\ pc' = "compile"
    /\ UNCHANGED <<inputs, err, import_functions, compiled, finished, functions,
                   relocations, applied, patches, globals_data, gi, instance,
                   memories, ret>>

\* one task of values.par_iter().map(..): compile_function(..).unwrap()
CompileFunction(k) ==
    /\ pc = "compile"
    /\ compiled[k] = None
    /\ LET body == module.function_bodies[k]
       IN  IF body.ok
           THEN /\ compiled' = [compiled EXCEPT ![k] =
                       Some([code_buf |-> [base |-> heap[k], of |-> k, rwx |-> FALSE],
                             reloc_sink |-> body.relocs])]
                /\ finished' = Append(finished, k)
                /\ UNCHANGED <<pc, err>>
           ELSE /\ pc' = "panic"
                /\ err' = Panic("unwrap on Err: CompileError")
                /\ UNCHANGED <<compiled, finished>>
    /\ UNCHANGED <<inputs, import_functions, functions, relocations, applied,
                   patches, globals_data, gi, instance, memories, ret>>

\* .collect(): the calling thread resumes once every task has completed
Collect ==
    /\ pc = "compile"
    /\ \A k \in 1..NLocals : compiled[k] # None
    /\ pc' = "collect"
    /\ UNCHANGED <<inputs, err, import_functions, compiled, finished, functions,
                   relocations, applied, patches, globals_data, gi, instance,
                   memories, ret>>

\* for compiled_func in compiled_funcs.into_iter(): protect, push, push
ProtectAndPush ==
    /\ pc = "collect"
    /\ Len(functions) < NLocals
    /\ LET compiled_func == ParCollect(compiled, finished)[Len(functions) + 1]
       IN  \E protect_ok \in BOOLEAN :
              IF protect_ok
              THEN /\ functions' = Append(functions,
                                          [compiled_func.code_buf EXCEPT !.rwx = TRUE])
                   /\ relocations' = Append(relocations, compiled_func.reloc_sink)
                   /\ UNCHANGED <<pc, err>>
              ELSE /\ pc' = "panic"
                   /\ err' = Panic("unwrap on Err: failed to give executable permission to code")
                   /\ UNCHANGED <<functions, relocations>>
    /\ UNCHANGED <<inputs, import_functions, compiled, finished, applied,
                   patches, globals_data, gi, instance, memories, ret>>

CollectDone ==
    /\ pc = "collect"
    /\ Len(functions) = NLocals
    /\ pc' = "relocate"
    /\ UNCHANGED <<inputs, err, import_functions, compiled, finished, functions,
                   relocations, applied, patches, globals_data, gi, instance,
                   memories, ret>>

\* one record of: for (i, function_relocs) in relocations.iter().enumerate()
\*                    for ref reloc in function_relocs
Relocate ==
    /\ pc = "relocate"
    /\ applied < Len(FlatRelocs(relocations, 1))
    /\ LET rec == FlatRelocs(relocations, 1)[applied + 1]
           r == ApplyReloc(rec.func, rec.reloc, import_functions, functions, debug_build)
       IN  IF r.tag = "Ok"
           THEN /\ patches' = Append(patches,
                       [func |-> rec.func, idx |-> rec.idx,
                        address |-> r.value.address, width |-> r.value.width,
                        value |-> r.value.value,
                        rwx |-> functions[rec.func - Len(import_functions) + 1].rwx])
                /\ applied' = applied + 1
                /\ UNCHANGED <<pc, err>>
           ELSE /\ pc' = "panic"
                /\ err' = r
                /\ UNCHANGED <<patches, applied>>
    /\ UNCHANGED <<inputs, import_functions, compiled, finished, functions,
                   relocations, globals_data, gi, instance, memories, ret>>

\* the relocation loops end; globals.resize(globals_count * 8, 0) and the
\* view of the vector as a slice of i64. A vector that stays empty has the
\* dangling pointer of a Vec<u8>, which is not aligned for i64: the slice
\* constructor's precondition check, compiled in with debug assertions, stops
\* the process with a panic that does not unwind; without it the empty slice
\* is used as it is.
RelocateDone ==
    /\ pc = "relocate"
    /\ applied = Len(FlatRelocs(relocations, 1))
    /\ IF NGlobals = 0 /\ debug_build
       THEN /\ pc' = "panic"
            /\ err' = Panic("unsafe precondition(s) violated: slice::from_raw_parts_mut")
            /\ UNCHANGED globals_data
       ELSE /\ globals_data' = [i \in 1..NGlobals |-> Zero64]
            /\ pc' = "globals"
            /\ UNCHANGED err
    /\ UNCHANGED <<inputs, import_functions, compiled, finished, functions,
                   relocations, applied, patches, gi, instance, memories, ret>>

\* for (i, global) in module.info.globals.iter().enumerate()
EvalGlobal ==
    /\ pc = "globals"
    /\ gi < NGlobals
    /\ LET r == EvalInitializer(module.globals[gi + 1], globals_data,
                                import_object, options)
       IN  IF r.tag = "Ok"
           THEN /\ globals_data' = [globals_data EXCEPT ![gi + 1] = r.value]
                /\ gi' = gi + 1
                /\ UNCHANGED <<pc, err>>
           ELSE /\ pc' = "panic"
                /\ err' = r
                /\ UNCHANGED <<globals_data, gi>>
    /\ UNCHANGED <<inputs, import_functions, compiled, finished, functions,
                   relocations, applied, patches, instance, memories, ret>>

\* tables and memories (nothing is instantiated), start_func, data pointers,
\* emscripten data, Ok(Instance { .. })
Finish ==
    /\ pc = "globals"
    /\ gi = NGlobals
    /\ LET e == EmscriptenData(module, options, import_functions, functions)
       IN  IF e.tag = "Ok"
           THEN /\ instance' = Some([start_func |-> StartFunc(module),
                                     emscripten_data |-> e.value])
                /\ pc' = "done"
                /\ UNCHANGED err
           ELSE /\ pc' = "panic"
                /\ err' = e
                /\ UNCHANGED instance
    /\ UNCHANGED <<inputs, import_functions, compiled, finished, functions,
                   relocations, applied, patches, globals_data, gi, memories, ret>>

\* ---------------------------------------------------------------------------
\* Operations on a built Instance
\* ---------------------------------------------------------------------------
GetFunctionPointer(func_index) ==
    /\ pc = "done"
    /\ ret' = [op |-> "get_function_pointer", func_index |-> func_index,
               result |-> get_function_addr(func_index, import_functions, functions)]
    /\ UNCHANGED <<inputs, pc, err, import_functions, compiled, finished, functions,
                   relocations, applied, patches, globals_data, gi, instance, memories>>

\* Instance::start: the protected call returns Ok(()) or reports a fault
Start ==
    /\ pc = "done"
    /\ IF instance.value.start_func.tag = "Some"
       THEN LET func == get_instance_function(instance.value.start_func.value,
                                              import_functions, functions)
            IN  IF func.tag = "Ok"
                THEN \E outcome \in {"Ok", "Err"} :
                        ret' = [op |-> "start", invoked |-> Some(func.value),
                                result |-> [tag |-> outcome]]
                ELSE ret' = [op |-> "start", invoked |-> None, result |-> func]
       ELSE ret' = [op |-> "start", invoked |-> None, result |-> [tag |-> "Ok"]]
    /\ UNCHANGED <<inputs, pc, err, import_functions, compiled, finished, functions,
                   relocations, applied, patches, globals_data, gi, instance, memories>>

GrowMemory(size, memory_index) ==
    /\ pc = "done"
    /\ LET r == grow_memory(size, memory_index, memories, debug_build)
       IN  /\ memories' = r.memories
           /\ ret' = [op |-> "grow_memory", size |-> size, memory_index |-> memory_index,
                      before |-> memories, result |-> r.result]
    /\ UNCHANGED <<inputs, pc, err, import_functions, compiled, finished, functions,
                   relocations, applied, patches, globals_data, gi, instance>>

CurrentMemory(memory_index) ==
    /\ pc = "done"
    /\ ret' = [op |-> "current_memory", memory_index |-> memory_index,
               result |-> current_memory(memory_index, memories)]
    /\ UNCHANGED <<inputs, pc, err, import_functions, compiled, finished, functions,
                   relocations, applied, patches, globals_data, gi, instance, memories>>

Next ==
    \/ ResolveImport
    \/ ImportsDone
    \/ \E k \in 1..NLocals : CompileFunction(k)
    \/ Collect
    \/ ProtectAndPush
    \/ CollectDone
    \/ Relocate
    \/ RelocateDone
    \/ EvalGlobal
    \/ Finish
    \/ \E i \in 0..(NImports + NLocals) : GetFunctionPointer(i)
    \/ Start

NextMem ==
    \/ \E size \in 0..MaxPages, memory_index \in 0..1 : GrowMemory(size, memory_index)
    \/ \E memory_index \in 0..1 : CurrentMemory(memory_index)

\* ---------------------------------------------------------------------------
\* Inputs
\* ---------------------------------------------------------------------------
SeqsUpTo(S, n) == UNION {[1..k -> S] : k \in 0..n}

KeyF == <<"env", "f">>
KeyG == <<"env", "g">>
KeyX == <<"env", "x">>
FuncKeys == {KeyF, KeyG}

\* the import objects that register some of `keys`, each with one of `values`
ImportObjects(keys, values) == UNION {[present -> values] : present \in SUBSET keys}

Minus64(n) == Neg64(<<n, 0, 0, 0>>)
GlobalV == <<4660, 22136, 39612, 57072>>

NormalTarget(i) == [tag |-> "Normal", index |-> i]
Reloc(offset, kind, target, addend) ==
    [offset |-> <<offset, 0>>, reloc |-> kind, target |-> target, addend |-> addend]
Body(relocs) == [ok |-> TRUE, relocs |-> relocs]

I32Const(w) == [initializer |-> [tag |-> "I32Const", value |-> w], import_name |-> None]
I64Const(w) == [initializer |-> [tag |-> "I64Const", value |-> w], import_name |-> None]
F32Const(w) == [initializer |-> [tag |-> "F32Const", value |-> w], import_name |-> None]
F64Const(w) == [initializer |-> [tag |-> "F64Const", value |-> w], import_name |-> None]
GetGlobal(k) == [initializer |-> [tag |-> "GetGlobal", index |-> k], import_name |-> None]
ImportGlobal(key) == [initializer |-> [tag |-> "Import"], import_name |-> Some(key)]

Options(mi, mg, mt, abi) ==
    [mock_missing_imports |-> mi, mock_missing_globals |-> mg,
     mock_missing_tables |-> mt, abi |-> abi]

\* two functions: a call of function 0 and a reference to grow_memory
DefaultBodies ==
    <<Body(<<Reloc(1, "X86PCRel4", NormalTarget(0), Minus64(4))>>),
      Body(<<Reloc(2, "Abs8", [tag |-> "GrowMemory"], Zero64)>>)>>
DefaultHeap == [k \in 1..(MaxLocals + 1) |-> HeapAddr(k - 1)]
NoExports == [n \in {} |-> None]

\* ---------------------------------------------------------------------------
\* Spec: linking. The imported functions, the import object and the mock
\* options vary; the module has two functions and two globals.
\* ---------------------------------------------------------------------------
Init ==
    /\ \E decls \in SeqsUpTo(FuncKeys, MaxImports) :
          module = [imported_funcs |-> decls,
                    function_bodies |-> DefaultBodies,
                    globals |-> <<I32Const(<<LimbMax, LimbMax>>), ImportGlobal(KeyX)>>,
                    exports |-> NoExports,
                    start_func |-> None]
    /\ \E fo \in ImportObjects(FuncKeys, {FuncValue(ImpA), FuncValue(ImpB), GlobalValue(GlobalV)}),
          xo \in ImportObjects({KeyX}, {GlobalValue(GlobalV), FuncValue(ImpA)}) :
          import_object = fo @@ xo
    /\ \E mi \in BOOLEAN, mg \in BOOLEAN, mt \in BOOLEAN :
          options = Options(mi, mg, mt, "None")
    /\ heap = DefaultHeap
    /\ debug_build = TRUE
    /\ Entered

Spec == Init /\ [][Next]_vars

\* ---------------------------------------------------------------------------
\* SpecGlobals: the global declarations vary. The one imported function is
\* registered, missing and mocked, or missing and reported. The two builds
\* differ in this phase for the empty list of globals only, which is taken
\* through both.
\* ---------------------------------------------------------------------------
GlobalDecls ==
    {I32Const(<<LimbMax, LimbMax>>), F32Const(<<0, 49024>>), I64Const(GlobalV),
     ImportGlobal(KeyX)}
    \cup {GetGlobal(k) : k \in 0..MaxGlobals}

InitGlobals ==
    /\ \E gs \in SeqsUpTo(GlobalDecls, MaxGlobals) :
          module = [imported_funcs |-> <<KeyF>>,
                    function_bodies |-> <<DefaultBodies[1]>>,
                    globals |-> gs,
                    exports |-> NoExports,
                    start_func |-> None]
    /\ \E fo \in ImportObjects({KeyF}, {FuncValue(ImpA)}),
          xo \in ImportObjects({KeyX}, {GlobalValue(GlobalV), FuncValue(ImpA)}) :
          import_object = fo @@ xo
    /\ \E mi \in BOOLEAN, mg \in BOOLEAN :
          /\ mi => KeyF \notin DOMAIN import_object
          /\ options = Options(mi, mg, FALSE, "None")
    /\ heap = DefaultHeap
    /\ debug_build \in BOOLEAN
    /\ ~debug_build => module.globals = <<>>
    /\ Entered

SpecGlobals == InitGlobals /\ [][Next]_vars

\* ---------------------------------------------------------------------------
\* SpecExports: the export table, the start function and the ABI vary.
\* One imported function (index 0) and two local ones (indices 1 and 2).
\* ---------------------------------------------------------------------------
WellKnown == <<"_malloc", "_free", "_memalign", "_memset", "stackAlloc">>
WellKnownSet == {WellKnown[i] : i \in 1..Len(WellKnown)}

ExportTables ==
    {main @@ wk :
        main \in ImportObjects({"main"}, {FunctionExport(1), FunctionExport(2), GlobalExport(0)}),
        wk \in UNION {[present -> {FunctionExport(0), FunctionExport(2), MemoryExport(0)}] :
                        present \in {p \in SUBSET WellKnownSet : Cardinality(p) <= 2}}}

InitExports ==
    /\ \E ex \in ExportTables, sf \in {None, Some(0), Some(1)} :
          module = [imported_funcs |-> <<KeyF>>,
                    function_bodies |-> DefaultBodies,
                    globals |-> <<I64Const(GlobalV)>>,
                    exports |-> ex,
                    start_func |-> sf]
    /\ import_object = [k \in {KeyF} |-> FuncValue(ImpA)]
    /\ \E abi \in {"None", "Emscripten"} :
          options = Options(FALSE, FALSE, FALSE, abi)
    /\ heap = DefaultHeap
    /\ debug_build = TRUE
    /\ Entered

SpecExports == InitExports /\ [][Next]_vars

\* ---------------------------------------------------------------------------
\* SpecReloc: the compiled functions, their relocation records and the
\* addresses of their buffers vary. One imported function (index 0). The two
\* builds differ in this phase where the 64-bit arithmetic overflows only:
\* the records that make it overflow are taken through both builds, the
\* others through the debug build.
\* ---------------------------------------------------------------------------
MaxRelocs == 2

RelocRecords ==
    {Reloc(1, "X86PCRel4", NormalTarget(0), Minus64(4)),
     Reloc(6, "X86PCRel4", NormalTarget(2), Minus64(4)),
     Reloc(2, "Abs8", NormalTarget(1), Zero64),
     Reloc(12, "Abs8", [tag |-> "GrowMemory"], <<8, 0, 0, 0>>),
     Reloc(3, "X86PCRel4", [tag |-> "LibCall", libcall |-> "CeilF32"], Zero64),
     Reloc(4, "Abs8", [tag |-> "CurrentMemory"], Minus64(1)),
     Reloc(1, "Abs4", NormalTarget(0), Zero64),
     Reloc(2, "Abs8", [tag |-> "LibCall", libcall |-> "Memcpy"], Zero64),
     Reloc(1, "X86PCRel4", [tag |-> "Intrinsic", name |-> "abi"], Zero64)}

\* the first function carries any list of records, the others one call of
\* the first
OtherBodies == {Body(<<Reloc(5, "X86PCRel4", NormalTarget(1), Zero64)>>)}
BodySeqs ==
    {<<first>> \o rest :
        first \in {Body(rs) : rs \in SeqsUpTo(RelocRecords, MaxRelocs)}
                  \cup {[ok |-> FALSE, relocs |-> <<>>]},
        rest \in SeqsUpTo(OtherBodies, MaxLocals - 1)}

\* records whose 64-bit arithmetic leaves the signed range: the largest addend
\* added to an address, an address in the upper half taken against a buffer
\* in the lower half, and the smallest addend added to a negative difference
MaxI64 == <<LimbMax, LimbMax, LimbMax, LimbSign - 1>>
MinI64 == <<0, 0, 0, LimbSign>>
OverflowRecords ==
    {Reloc(0, "Abs8", NormalTarget(0), MaxI64),
     Reloc(0, "X86PCRel4", NormalTarget(0), Zero64),
     Reloc(0, "X86PCRel4", NormalTarget(0), MinI64)}
OverflowBodySeqs ==
    {<<Body(<<r>>)>> \o rest :
        r \in OverflowRecords, rest \in SeqsUpTo(OtherBodies, MaxLocals - 1)}

\* placements of the buffers: consecutive heap addresses from the lowest or
\* from the highest, wrapping around, so a later function may lie below an
\* earlier one
Heaps ==
    {[k \in 1..MaxLocals |-> HeapAddr((k - 1 + r) % (MaxLocals + 1))] : r \in {0, MaxLocals}}

InitReloc ==
    /\ \E bodies \in BodySeqs \cup OverflowBodySeqs :
          module = [imported_funcs |-> <<KeyF>>,
                    function_bodies |-> bodies,
                    globals |-> <<I64Const(GlobalV)>>,
                    exports |-> NoExports,
                    start_func |-> Some(1)]
    /\ \E a \in {ImpA, ImpTop} : import_object = [k \in {KeyF} |-> FuncValue(a)]
    /\ options = Options(FALSE, FALSE, FALSE, "None")
    /\ heap \in Heaps
    /\ debug_build \in BOOLEAN
    /\ (~debug_build \/ import_object[KeyF] = FuncValue(ImpTop)) =>
          module.function_bodies \in OverflowBodySeqs
    /\ Entered

SpecReloc == InitReloc /\ [][Next]_vars

\* ---------------------------------------------------------------------------
\* SpecMem: grow_memory and current_memory, called with an instance that
\* holds no memory or one memory of up to MaxPages pages.
\* ---------------------------------------------------------------------------
MemoryStates ==
    {<<>>} \cup {<<[pages |-> p, maximum |-> m]>> : p \in 0..MaxPages, m \in 0..MaxPages}

InitMem ==
    /\ module = [imported_funcs |-> <<>>, function_bodies |-> <<>>,
                 globals |-> <<I64Const(GlobalV)>>,
                 exports |-> NoExports, start_func |-> None]
    /\ import_object = NoExports
    /\ options = Options(FALSE, FALSE, FALSE, "None")
    /\ heap = DefaultHeap
    /\ debug_build \in BOOLEAN
    /\ pc = "done"
    /\ err = None
    /\ import_functions = <<>>
    /\ compiled = <<>>
    /\ finished = <<>>
    /\ functions = <<>>
    /\ relocations = <<>>
    /\ applied = 0
    /\ patches = <<>>
    /\ globals_data = <<GlobalV>>
    /\ gi = 1
    /\ instance = Some([start_func |-> None, emscripten_data |-> None])
    /\ memories \in {ms \in MemoryStates : ms = <<>> \/ ms[1].pages <= ms[1].maximum}
    /\ ret = [op |-> "none"]

SpecMem == InitMem /\ [][NextMem]_vars

\* ---------------------------------------------------------------------------
\* Properties
\* ---------------------------------------------------------------------------
Terminal == pc \in {"done", "link_error", "panic"}

\* import declaration i (1-based) and what the import object holds for it
ImportedAs(i) == ImportGet(import_object, module.imported_funcs[i])
MissingFunc(i) == ImportedAs(i).tag = "None"
WrongKindFunc(i) == ImportedAs(i).tag = "Some" /\ ImportedAs(i).value.tag # "Func"
MissingFuncs == {i \in 1..NImports : MissingFunc(i)}
FirstMissing == CHOOSE i \in MissingFuncs : \A j \in MissingFuncs : i <= j

\* C1: on a built instance get_function_pointer(i) is, for i < n, the address
\* registered for import declaration i (the import object's function address,
\* or the stub's when the import is mocked) and, for n <= i < n + m, the base
\* of the buffer compiled from function body i - n.
C1_FunctionIndexAddressing ==
    (pc = "done" /\ ret.op = "get_function_pointer") =>
        LET i == ret.func_index
        IN  /\ i < NImports =>
                ret.result = Ok(IF MissingFunc(i + 1) THEN MockFnAddr
                                ELSE ImportedAs(i + 1).value.addr)
            /\ (NImports <= i /\ i < NImports + NLocals) =>
                /\ compiled[i - NImports + 1].value.code_buf.of = i - NImports + 1
                /\ ret.result = Ok(compiled[i - NImports + 1].value.code_buf.base)
                /\ ret.result = Ok(heap[i - NImports + 1])

C1_Witness ==
    /\ pc = "done"
    /\ ret.op = "get_function_pointer"
    /\ NImports = 2
    /\ MissingFunc(1)
    /\ ret.func_index = NImports + 1
    /\ ret.result = Ok(heap[2])

\* whether an import declaration before the first missing one has the wrong kind
MismatchBeforeFirstMissing == \E j \in 1..(FirstMissing - 1) : WrongKindFunc(j)

\* whether an import declared before declaration i has the wrong kind
MismatchBefore(i) == \E j \in 1..(i - 1) : WrongKindFunc(j)

\* the import loop went past declaration i, a missing import, and gave it the
\* stub, which returns 0
MockedAndContinues(i) ==
    /\ pc # "imports" => Len(import_functions) >= i
    /\ Len(import_functions) >= i =>
          /\ import_functions[i] = mock_fn.addr
          /\ mock_fn.addr = MockFnAddr
          /\ mock_fn.returns = <<0, 0>>

\* the import loop stopped before declaration i, at a declaration of the wrong
\* kind: declaration i has no slot and no Instance is produced
PreemptedByMismatch(i) ==
    /\ Len(import_functions) < i
    /\ pc # "imports" =>
          /\ pc = "panic"
          /\ err = Panic("Expected function import")
          /\ WrongKindFunc(Len(import_functions) + 1)
          /\ instance = None

\* a LinkError names import declaration i, and no Instance was produced
LinkErrorNames(i) ==
    /\ pc = "link_error"
    /\ err = [tag |-> "LinkError", module |-> module.imported_funcs[i][1],
              field |-> module.imported_funcs[i][2]]
    /\ instance = None

WrongKindGlobal(g) ==
    /\ module.globals[g].initializer.tag = "Import"
    /\ LET imported == ImportGet(import_object, module.globals[g].import_name.value)
       IN  imported.tag = "Some" /\ imported.value.tag # "Global"
HasWrongKind ==
    \/ \E i \in 1..NImports : WrongKindFunc(i)
    \/ \E g \in 1..NGlobals : WrongKindGlobal(g)

\* a wrong-kind import never gets a slot: no stub address, no zero value
NeverMasked ==
    /\ \A i \in 1..Len(import_functions) : ~WrongKindFunc(i)
    /\ \A g \in 1..gi : ~WrongKindGlobal(g)
    /\ pc = "done" => ~HasWrongKind

\* the panic of a kind mismatch is raised at a wrong-kind import, and the first
\* function import that cannot be resolved raises it when it has the wrong kind
MismatchPanics ==
    /\ (pc = "panic" /\ err = Panic("Expected function import")) =>
            WrongKindFunc(Len(import_functions) + 1)
    /\ (pc = "panic" /\ err = Panic("Expected global import")) =>
            WrongKindGlobal(gi + 1)
    /\ \A i \in 1..NImports :
          (/\ Terminal
           /\ WrongKindFunc(i)
           /\ \A j \in 1..(i - 1) :
                 /\ ~WrongKindFunc(j)
                 /\ MissingFunc(j) => options.mock_missing_imports) =>
                pc = "panic" /\ err = Panic("Expected function import")

\* a LinkError is about a missing import, never about one of the wrong kind
LinkErrorIsAboutMissing ==
    pc = "link_error" =>
        \E i \in MissingFuncs :
            err = [tag |-> "LinkError", module |-> module.imported_funcs[i][1],
                   field |-> module.imported_funcs[i][2]]

\* C3 as stated: whenever some import is registered under the right name with
\* the wrong kind, instantiation ends in a fatal error, whatever the three mock
\* options are.
C3_Original ==
    (Terminal /\ HasWrongKind) => pc = "panic"

\* C3 as amended: such an import is never stubbed, zeroed or reported as a
\* LinkError, and instantiation ends in a fatal error unless a function import
\* that is looked up before it is missing with mock_missing_imports = false,
\* in which case the LinkError for that missing import is returned first.
C3_TypeMismatch ==
    /\ (Terminal /\ HasWrongKind) =>
            IF /\ ~options.mock_missing_imports
               /\ MissingFuncs # {}
               /\ ~MismatchBeforeFirstMissing
            THEN LinkErrorNames(FirstMissing)
            ELSE pc = "panic"
    /\ NeverMasked
    /\ MismatchPanics
    /\ LinkErrorIsAboutMissing

C3_Witness ==
    /\ pc = "panic"
    /\ err = Panic("Expected function import")
    /\ options.mock_missing_imports
    /\ options.mock_missing_globals
    /\ options.mock_missing_tables
    /\ NImports = 2
    /\ MissingFunc(1)
    /\ WrongKindFunc(2)
    /\ import_functions = <<MockFnAddr>>

\* the value global j (1-based) is initialized to when the globals are
\* evaluated in declaration order over zero-filled slots, from the inputs alone
RECURSIVE InitializedTo(_)
InitializedTo(j) ==
    LET init == module.globals[j].initializer
    IN  CASE init.tag = "I32Const" ->
                IF init.value[2] >= LimbSign
                THEN <<init.value[1], init.value[2], LimbMax, LimbMax>>
                ELSE <<init.value[1], init.value[2], 0, 0>>
          [] init.tag \in {"I64Const", "F64Const"} -> init.value
          [] init.tag = "F32Const" -> <<init.value[1], init.value[2], 0, 0>>
          [] init.tag = "Import" ->
                LET imported == ImportGet(import_object, module.globals[j].import_name.value)
                IN  IF imported.tag = "Some" THEN imported.value.value ELSE Zero64
          [] init.tag = "GetGlobal" ->
                IF init.index + 1 < j THEN InitializedTo(init.index + 1) ELSE Zero64

RefersBack(i) ==
    /\ module.globals[i].initializer.tag = "GetGlobal"
    /\ module.globals[i].initializer.index + 1 < i

\* C4: the globals are evaluated in declaration order into 8-byte slots (the
\* slots after the one being evaluated are still zero), and the slot of a
\* global that refers to an earlier global k holds the value slot k was
\* initialized to, whatever the initializer of k is.
C4_GlobalReference ==
    pc \in {"globals", "done"} =>
        /\ pc = "done" => gi = NGlobals
        /\ Len(globals_data) = NGlobals
        /\ \A j \in 1..NGlobals : Len(globals_data[j]) * 2 = 8
        /\ \A j \in (gi + 1)..NGlobals : globals_data[j] = Zero64
        /\ \A i \in 1..gi :
              RefersBack(i) =>
                  LET k == module.globals[i].initializer.index + 1
                  IN  /\ globals_data[i] = globals_data[k]
                      /\ globals_data[i] = InitializedTo(k)

C4_Witness ==
    /\ pc = "done"
    /\ NGlobals = 3
    /\ module.globals[1].initializer.tag = "I32Const"
    /\ module.globals[2] = GetGlobal(0)
    /\ module.globals[3] = GetGlobal(1)
    /\ globals_data[3] = <<LimbMax, LimbMax, LimbMax, LimbMax>>

\* what the import object holds for the name global g (1-based) imports
GlobalImportedAs(g) == ImportGet(import_object, module.globals[g].import_name.value)
IsImportGlobal(g) == module.globals[g].initializer.tag = "Import"
FoundGlobal(g) ==
    GlobalImportedAs(g).tag = "Some" /\ GlobalImportedAs(g).value.tag = "Global"
MissingGlobal(g) == GlobalImportedAs(g).tag = "None"

\* C8 as stated: an imported global takes the registered global value; a
\* missing one takes 0 when mock_missing_globals is set; when it is not set
\* instantiation ends in a fatal error; mock_missing_imports plays no part.
C8_Original ==
    \A g \in 1..NGlobals :
        IsImportGlobal(g) =>
            /\ (FoundGlobal(g) /\ pc = "done") =>
                    globals_data[g] = GlobalImportedAs(g).value.value
            /\ (MissingGlobal(g) /\ options.mock_missing_globals /\ pc = "done") =>
                    globals_data[g] = Zero64
            /\ (MissingGlobal(g) /\ ~options.mock_missing_globals /\ Terminal) =>
                    pc = "panic"

\* C8 as amended: the same for every imported global that is evaluated; a
\* missing one without mock_missing_globals is never given a value and ends
\* instantiation in a fatal error unless instantiation ended before the
\* globals were evaluated, with the LinkError for a missing imported function.
C8_ImportedGlobal ==
    \A g \in 1..NGlobals :
        IsImportGlobal(g) =>
            /\ (FoundGlobal(g) /\ g <= gi) =>
                    globals_data[g] = GlobalImportedAs(g).value.value
            /\ (MissingGlobal(g) /\ options.mock_missing_globals /\ g <= gi) =>
                    globals_data[g] = Zero64
            /\ (MissingGlobal(g) /\ ~options.mock_missing_globals) =>
                    /\ gi < g
                    /\ Terminal =>
                        \/ pc = "panic"
                        \/ /\ pc = "link_error"
                           /\ ~options.mock_missing_imports
                           /\ MissingFuncs # {}
                           /\ globals_data = <<>>

C8_Witness ==
    /\ pc = "done"
    /\ ~options.mock_missing_imports
    /\ options.mock_missing_globals
    /\ NGlobals = 2
    /\ IsImportGlobal(2)
    /\ MissingGlobal(2)
    /\ globals_data[1] # Zero64
    /\ globals_data[2] = Zero64

\* the address of combined index i (0-based), from the inputs alone
RegisteredAddr(i) ==
    IF MissingFunc(i + 1) THEN MockFnAddr ELSE ImportedAs(i + 1).value.addr
AddrOfIndex(i) == IF i < NImports THEN RegisteredAddr(i) ELSE heap[i - NImports + 1]

IsFunctionExport(name) ==
    name \in DOMAIN module.exports /\ module.exports[name].tag = "Function"
\* the address C5 expects in the field captured from export `name`
ShimField(name) ==
    IF IsFunctionExport(name) THEN AddrOfIndex(module.exports[name].index) ELSE Zero64

\* C5: with the Emscripten ABI, emscripten_data is None when none of the five
\* exports _malloc, _free, _memalign, _memset, stackAlloc exists and Some when
\* at least one exists, each field holding the address of its function export
\* in the combined index space and zero otherwise; with ABI None,
\* emscripten_data is None.
C5_Original ==
    pc = "done" =>
        IF options.abi = "Emscripten" /\ WellKnownSet \cap DOMAIN module.exports # {}
        THEN instance.value.emscripten_data =
                Some([malloc |-> ShimField("_malloc"),
                      free |-> ShimField("_free"),
                      memalign |-> ShimField("_memalign"),
                      memset |-> ShimField("_memset"),
                      stack_alloc |-> ShimField("stackAlloc")])
        ELSE instance.value.emscripten_data = None

\* C6 as stated: grow_memory(size, 0, instance) grows memory 0 by size pages
\* and returns -1 when the grow fails and the number of pages added when it
\* succeeds.
C6_Original ==
    (ret.op = "grow_memory" /\ ret.memory_index = 0 /\ Len(ret.before) > 0) =>
        IF ret.before[1].pages + ret.size <= ret.before[1].maximum
        THEN /\ ret.result = Ok(ret.size)
             /\ memories[1].pages = ret.before[1].pages + ret.size
        ELSE /\ ret.result = Ok(-1)
             /\ memories = ret.before

\* C6 as amended: on success grow_memory returns what grow returns, the
\* page count before the growth.
C6_GrowMemory ==
    (ret.op = "grow_memory" /\ ret.memory_index = 0 /\ Len(ret.before) > 0) =>
        IF ret.before[1].pages + ret.size <= ret.before[1].maximum
        THEN /\ ret.result = Ok(ret.before[1].pages)
             /\ memories[1].pages = ret.before[1].pages + ret.size
        ELSE /\ ret.result = Ok(-1)
             /\ memories = ret.before

C6_Witness ==
    /\ ret.op = "grow_memory"
    /\ ret.memory_index = 0
    /\ ret.size = 2
    /\ ret.before = <<[pages |-> 1, maximum |-> MaxPages]>>
    /\ ret.result = Ok(1)
    /\ memories[1].pages = 3

\* the start function C7 expects, from the module alone
ExpectedStart ==
    IF module.start_func # None
    THEN module.start_func
    ELSE IF IsFunctionExport("main") THEN Some(module.exports["main"].index) ELSE None

\* C7: the instance's start function is the declared one, else the function
\* exported as main, else absent; start() calls exactly that function through
\* the protected call, and without a start function returns Ok(()) and calls
\* nothing.
C7_StartFunction ==
    pc = "done" =>
        /\ instance.value.start_func = ExpectedStart
        /\ ret.op = "start" =>
              IF ExpectedStart # None
              THEN /\ ret.invoked = Some(AddrOfIndex(ExpectedStart.value))
                   /\ ret.result.tag \in {"Ok", "Err"}
              ELSE /\ ret.invoked = None
                   /\ ret.result = [tag |-> "Ok"]

C7_Witness ==
    /\ pc = "done"
    /\ module.start_func = None
    /\ IsFunctionExport("main")
    /\ module.exports["main"].index = 2
    /\ ret.op = "start"
    /\ ret.invoked = Some(heap[2])

\* C9: every patch is written into a buffer that has not yet been marked
\* executable, and every buffer of a built instance has been marked.
C9_Original ==
    /\ \A q \in 1..Len(patches) : ~patches[q].rwx
    /\ pc = "done" => \A k \in 1..Len(functions) : functions[k].rwx

\* the record patch q was made for, its buffer and its target, from the inputs
PatchRecord(q) ==
    module.function_bodies[patches[q].func - NImports + 1].relocs[patches[q].idx]
PatchBase(q) == heap[patches[q].func - NImports + 1]
TargetOf(target) ==
    CASE target.tag = "Normal" -> AddrOfIndex(target.index)
      [] target.tag = "CurrentMemory" -> CurrentMemoryAddr
      [] target.tag = "GrowMemory" -> GrowMemoryAddr
      [] target.tag = "LibCall" -> LibCallAddr(target.libcall)
Resolvable(target) ==
    CASE target.tag = "Normal" -> target.index < NImports + NLocals
      [] target.tag \in {"CurrentMemory", "GrowMemory"} -> TRUE
      [] target.tag = "LibCall" ->
            \E i \in 1..Len(SupportedLibCalls) : SupportedLibCalls[i] = target.libcall
      [] target.tag = "Intrinsic" -> FALSE
\* T - (B + offset) + addend, in 64 bits
PatchDelta(q) ==
    Add64(Sub64(TargetOf(PatchRecord(q).target),
                Add64(PatchBase(q), ZeroExtend32(PatchRecord(q).offset))),
          PatchRecord(q).addend)

\* the relocation loops were entered and left
RelocationOver ==
    pc \in {"panic", "globals", "done"} /\ Len(relocations) = NImports + NLocals

\* C10 as stated: a record of kind Abs8 writes the 64-bit value T + addend at
\* B + offset; a record of kind X86PCRel4 writes the low 32 bits of
\* T - (B + offset) + addend at B + offset, whether or not the delta fits a
\* signed 32-bit integer; a record of any other kind ends instantiation in a
\* panic and writes nothing. So relocation stops at a record whose target
\* resolves only when its kind is neither of the two.
C10_Original ==
    /\ \A q \in 1..Len(patches) :
          LET rec == PatchRecord(q)
              T == TargetOf(rec.target)
              at == Add64(PatchBase(q), ZeroExtend32(rec.offset))
          IN  /\ patches[q].address = at
              /\ rec.reloc \in {"Abs8", "X86PCRel4"}
              /\ rec.reloc = "Abs8" =>
                    /\ patches[q].width = 8
                    /\ patches[q].value = Add64(T, rec.addend)
              /\ rec.reloc = "X86PCRel4" =>
                    /\ patches[q].width = 4
                    /\ Len(patches[q].value) * 2 = 4
                    /\ patches[q].value = <<PatchDelta(q)[1], PatchDelta(q)[2]>>
                    /\ Trunc32(Add64(ZeroExtend32(patches[q].value), at))
                          = Trunc32(Add64(T, rec.addend))
    /\ (RelocationOver /\ applied < Len(FlatRelocs(relocations, 1))) =>
          LET rec == FlatRelocs(relocations, 1)[applied + 1].reloc
          IN  /\ pc = "panic"
              /\ Len(patches) = applied
              /\ Resolvable(rec.target) =>
                    /\ rec.reloc \notin {"Abs8", "X86PCRel4"}
                    /\ err = Panic("unsupported reloc kind")
    /\ (pc = "panic" /\ err = Panic("unsupported reloc kind")) =>
          FlatRelocs(relocations, 1)[applied + 1].reloc.reloc \notin {"Abs8", "X86PCRel4"}

\* the (function, record) pairs of the module in declaration order, from the
\* inputs: function j is the local function j (1-based) of the module
RECURSIVE RecordsFrom(_)
RecordsFrom(j) ==
    IF j > NLocals
    THEN <<>>
    ELSE [r \in 1..Len(module.function_bodies[j].relocs) |->
              [func |-> NImports + j - 1, idx |-> r]]
         \o RecordsFrom(j + 1)

\* the write the inputs prescribe for patch q
PrescribedPatch(q) ==
    PatchFor(PatchBase(q), PatchRecord(q), TargetOf(PatchRecord(q).target), debug_build)

\* the compile tasks completed in an order other than the declaration order
OutOfOrder == \E k \in 1..Len(finished) : finished[k] # k

\* C11: whatever order the compile tasks completed in, the buffer and the
\* relocation list stored at local index k are those of the k-th body, so the
\* function address table and the sequence of patches are functions of the
\* module, the import object and the placement of each body's buffer alone.
C11_CompileOrderIndependence ==
    /\ \A k \in 1..Len(functions) :
          /\ functions[k].of = k
          /\ functions[k].base = heap[k]
          /\ relocations[NImports + k] = module.function_bodies[k].relocs
    /\ Len(functions) = NLocals =>
          \A i \in 0..(NImports + NLocals - 1) :
              get_function_addr(i, import_functions, functions) = Ok(AddrOfIndex(i))
    /\ LET records == RecordsFrom(1)
       IN  /\ Len(patches) <= Len(records)
           /\ \A q \in 1..Len(patches) :
                 LET prescribed == PrescribedPatch(q)
                 IN  /\ [func |-> patches[q].func, idx |-> patches[q].idx] = records[q]
                     /\ prescribed.tag = "Ok"
                     /\ patches[q].address = prescribed.value.address
                     /\ patches[q].width = prescribed.value.width
                     /\ patches[q].value = prescribed.value.value

\* a built instance whose second function finished compiling before its
\* first, the two having different relocation lists and both being patched
C11_Witness ==
    /\ pc = "done"
    /\ NLocals >= 2
    /\ finished[1] = 2
    /\ OutOfOrder
    /\ module.function_bodies[1].relocs # module.function_bodies[2].relocs
    /\ \E q \in 1..Len(patches) : patches[q].func = NImports
    /\ \E q \in 1..Len(patches) : patches[q].func = NImports + 1

\* every local function has been compiled and its buffer and list stored
AllStored ==
    /\ \A k \in 1..NLocals : compiled[k] # None
    /\ Len(finished) = NLocals
    /\ Len(functions) = NLocals
    /\ Len(relocations) = NImports + NLocals

\* relocation ran to its end without a panic
RelocationSucceeded == pc \in {"globals", "done"}

C12_State ==
    /\ (pc = "relocate" \/ applied > 0 \/ patches # <<>>) => AllStored
    /\ Len(patches) = applied
    /\ \A i \in 1..Len(relocations) : i <= NImports => relocations[i] = <<>>
    /\ LET records == RecordsFrom(1)
       IN  /\ \A q \in 1..Len(patches) :
                 /\ patches[q].func >= NImports
                 /\ patches[q].func < NImports + NLocals
                 /\ [func |-> patches[q].func, idx |-> patches[q].idx] = records[q]
                 /\ patches[q].address =
                       Add64(functions[patches[q].func - NImports + 1].base,
                             ZeroExtend32(PatchRecord(q).offset))
           /\ RelocationSucceeded => Len(patches) = Len(records)
    /\ RelocationSucceeded =>
          /\ \A j \in 1..NLocals : \A r \in 1..Len(module.function_bodies[j].relocs) :
                Cardinality({q \in 1..Len(patches) :
                                /\ patches[q].func = NImports + j - 1
                                /\ patches[q].idx = r}) = 1

\* the patches are only ever extended, one at a time, by the relocation loops
C12_Step ==
    patches' # patches =>
        /\ pc = "relocate"
        /\ AllStored
        /\ Len(patches') = Len(patches) + 1
        /\ \A q \in 1..Len(patches) : patches'[q] = patches[q]
        /\ UNCHANGED <<functions, relocations, import_functions>>

\* C12: relocation starts only once every local function is compiled and
\* stored; in an instantiation that gets past relocation every record of every
\* local function j is applied exactly once, in record order, at an address
\* taken from the base of j's own buffer (combined index n_imports + j); the
\* imported functions carry empty relocation lists and no patch is made for
\* one of them.
C12_RelocationOnceInOrder == []C12_State /\ [][C12_Step]_vars

\* a built instance with an imported function, whose first local function
\* carries two different records and whose second carries one, all applied
C12_Witness ==
    /\ pc = "done"
    /\ NImports >= 1
    /\ NLocals >= 2
    /\ Len(module.function_bodies[1].relocs) = 2
    /\ module.function_bodies[1].relocs[1] # module.function_bodies[1].relocs[2]
    /\ Len(module.function_bodies[2].relocs) >= 1
    /\ Len(patches) >= 3
    /\ patches[1].func = NImports /\ patches[1].idx = 1
    /\ patches[2].func = NImports /\ patches[2].idx = 2
    /\ patches[3].func = NImports + 1 /\ patches[3].idx = 1

\* global i (1-based) refers to itself or to a later global of the module
RefersForward(i) ==
    /\ module.globals[i].initializer.tag = "GetGlobal"
    /\ module.globals[i].initializer.index + 1 >= i
    /\ module.globals[i].initializer.index < NGlobals

\* global i (1-based) refers to an index past the last global
RefersOutOfRange(i) ==
    /\ module.globals[i].initializer.tag = "GetGlobal"
    /\ module.globals[i].initializer.index >= NGlobals

\* the globals loop was entered and global i is the one it evaluates next or
\* stopped at
EvaluationAt(i) ==
    /\ pc \in {"globals", "panic"}
    /\ Len(globals_data) = NGlobals
    /\ gi = i - 1

\* C13 as stated: a reference to a global that is not yet initialized or out
\* of range never stops instantiation.
C13_Original ==
    \A i \in 1..NGlobals :
        ((RefersForward(i) \/ RefersOutOfRange(i)) /\ EvaluationAt(i)) => pc # "panic"

\* C13: a reference to the global itself or to a later global of the module
\* is not rejected, instantiation goes on and the referencing slot takes the
\* zero the zero-filled slot holds; a reference past the last global is
\* caught by the bounds check of the slice index, instantiation panics when
\* that global is evaluated, its slot is left zero and no instance is built.
C13_UnguardedReference ==
    \A i \in 1..NGlobals :
        /\ RefersForward(i) =>
              /\ EvaluationAt(i) => pc = "globals"
              /\ (Len(globals_data) = NGlobals /\ gi >= i) => globals_data[i] = Zero64
        /\ RefersOutOfRange(i) =>
              /\ gi < i
              /\ pc # "done"
              /\ (EvaluationAt(i) /\ pc # "globals") =>
                    /\ err = Panic("index out of bounds")
                    /\ instance = None
                    /\ globals_data[i] = Zero64

\* the first global refers to the second, which is a non-zero constant, and
\* read zero; the third refers to index 3 of three globals and stopped
\* instantiation
C13_Witness ==
    /\ NGlobals = 3
    /\ module.globals[1] = GetGlobal(1)
    /\ module.globals[2] = I64Const(GlobalV)
    /\ module.globals[3] = GetGlobal(3)
    /\ pc = "panic"
    /\ err = Panic("index out of bounds")
    /\ gi = 2
    /\ globals_data = <<Zero64, GlobalV, Zero64>>

====
